---------------------------- MODULE Spec2Model ----------------------------
(***************************************************************************)
(* Resilience layer of the GCP agent: the token-bucket RateLimiter         *)
(* (LLM-Integration/rate_limiter.py), the deployment circuit breaker       *)
(* (Deployment/cloud_run_deployer.py), the provider registry and failover  *)
(* dispatch of LLMManager (LLM-Integration/llm_manager.py), and heal_error *)
(* and the error signature of SelfHealingSystem                            *)
(* (Error_Handling/self_healing_system.py).                                *)
(*                                                                         *)
(* Each component has its own specification (SpecRL, SpecCB, SpecLLM,      *)
(* SpecReg, SpecRetry, SpecHeal, SpecSig); SpecScenario runs the manager   *)
(* together with a provider's rate limiter.  SpecAcquire is the limiter    *)
(* with callers of acquire only, SpecDeadline one dispatch against the     *)
(* max_time of its retry decorator, and SpecAdmin one dispatch while       *)
(* providers are registered and removed.  The variables a specification    *)
(* does not use keep their initial values.                                 *)
(***************************************************************************)
EXTENDS Integers, Sequences, FiniteSets, TLC

VARIABLES
    \* ---- RateLimiter (rate_limiter.py) ----
    request_tokens,   \* self.request_tokens, in sixtieths of a token
    token_tokens,     \* self.token_tokens, in sixtieths of a token
    time_passed,      \* now - self.last_refill in seconds, saturated at 60
    lock,             \* self.lock: the task holding it, or NoTask
    pc,               \* per task: where it is in acquire
    token_count,      \* per task: the argument of its acquire call
    depth,            \* per task: recursion depth of acquire (line 45)
    sleep_left,       \* per task: seconds left of asyncio.sleep(wait_time)
    \* ---- CloudRunDeployer._deploy_service_with_circuit_breaker ----
    cb_pc,                  \* where the current call is ("idle": no call)
    circuit_breaker_state,  \* local, line 139
    failure_count,          \* local, line 140
    retry_count,            \* local, line 146
    last_failure_age,       \* time.time() - last_failure_time, saturated
    backoff_left,           \* seconds left of asyncio.sleep(wait_time), l. 202
    service_result,         \* the dict the last call returned
    deploy_calls,           \* calls made so far (bounded by MaxDeployCalls)
    consecutive_failures,   \* history: create_service failures in a row
    since_failure,          \* history: seconds since the last such failure
    \* ---- LLMManager (llm_manager.py) ----
    providers,            \* self.providers: the registered names
    provider_priority,    \* self.provider_priority
    health_status,        \* self.health_status
    performance_metrics,  \* self.performance_metrics
    g_pc,                 \* per request: where its generate call is
    preferred,            \* per request: preferred_provider
    providers_to_try,     \* per request: the local list of lines 52-62
    position,             \* per request: index of the candidate being tried
    last_exception,       \* per request: the local of line 64
    tries,                \* per request: passes started (backoff's counter)
    outcome,              \* per request: what generate handed to its caller
    invoked,              \* history, per request: providers called this pass
    failed,               \* history, per request: those whose call raised
    in_flight,            \* history, per request: provider calls not completed
    calls_started,        \* history: provider calls started in this run
    registered_priority,  \* history: the priority each name was added with
    submitted,            \* scenario: generate calls submitted so far
    acquired,             \* scenario: the limiter admitted the provider call
    deadline_passed,      \* history: max_time has passed since request 1's
                          \* generate was called
    \* ---- SelfHealingSystem (self_healing_system.py) ----
    circuit_breakers,     \* self.circuit_breakers, per component
    error_patterns,       \* self.error_patterns: what the learning model holds
    h_pc,                 \* where the current heal_error call is
    h_error,              \* its error argument
    h_context,            \* its context argument
    error_signature,      \* local, line 62
    healing_strategy,     \* local, line 70
    healing_result,       \* local, lines 51-58
    h_executed,           \* history: how the strategy's execution ended
    h_recorded,           \* history: what this call gave the learning model
    h_raised,             \* history: the helper that raised in this call
    heal_calls,           \* heal_error calls made so far
    \* ---- SelfHealingSystem._generate_error_signature ----
    sig_error,            \* the error arguments of two calls
    sig_context,          \* the context arguments of two calls
    sig_value             \* what the two calls returned

rlVars == <<request_tokens, token_tokens, time_passed, lock, pc, token_count,
            depth, sleep_left>>

cbVars == <<cb_pc, circuit_breaker_state, failure_count, retry_count,
            last_failure_age, backoff_left, service_result, deploy_calls,
            consecutive_failures, since_failure>>

regVars == <<providers, provider_priority, health_status, performance_metrics,
             registered_priority>>

genVars == <<g_pc, preferred, providers_to_try, position, last_exception,
             tries, outcome, invoked, failed, in_flight, calls_started>>

scnVars == <<submitted, acquired, deadline_passed>>

llmVars == <<regVars, genVars, scnVars>>

healVars == <<circuit_breakers, error_patterns, h_pc, h_error, h_context,
              error_signature, healing_strategy, healing_result, h_executed,
              h_recorded, h_raised, heal_calls>>

sigVars == <<sig_error, sig_context, sig_value>>

vars == <<rlVars, cbVars, llmVars, healVars, sigVars>>

----------------------------------------------------------------------------
(***************************************************************************)
(* RateLimiter.  Token amounts are real numbers in the code; the model     *)
(* keeps them exactly, as integers counting sixtieths of a token, so that  *)
(* time_passed * limit / 60 (time in whole seconds) loses nothing.         *)
(***************************************************************************)

\* requests_per_minute and tokens_per_minute given to the constructor
rpm_limit == 2
tpm_limit == 3

\* the 60 of "limit / 60" and "* 60 / limit": seconds per minute
SecondsPerMinute == 60

\* concurrent callers of acquire, and the clock's steps per minute
NumTasks == 2
TicksPerMinute == 2
TickSeconds == SecondsPerMinute \div TicksPerMinute

Tasks == 1..NumTasks
NoTask == 0

\* token_count arguments tried: none, one, the whole bucket, and one too many
TokenCounts == {0, 1, tpm_limit, tpm_limit + 1}

Min(a, b) == IF a <= b THEN a ELSE b
Max(a, b) == IF a >= b THEN a ELSE b
CeilDiv(a, b) == (a + b - 1) \div b

\* lines 25-28 and 29-32: min(limit, tokens + time_passed * limit / 60)
RefillUncapped(tokens, limit, dt) == tokens + dt * limit
Refill(tokens, limit, dt) ==
    Min(limit * SecondsPerMinute, tokens + dt * limit)

\* line 37: self.request_tokens < 1 or self.token_tokens < token_count
TooFew(rt, tt, tc) == rt < 1 * SecondsPerMinute \/ tt < tc * SecondsPerMinute

\* lines 39-41: the wait in seconds, rounded up to the clock's whole seconds
WaitTimeFor(rt, tt, tc, rpm, tpm) ==
    Max(CeilDiv(1 * SecondsPerMinute - rt, rpm),
        CeilDiv(tc * SecondsPerMinute - tt, tpm))
WaitTime(rt, tt, tc) == WaitTimeFor(rt, tt, tc, rpm_limit, tpm_limit)

\* lines 48-49: consume from both buckets
ConsumeRequestOnly(rt, tt, tc) == <<rt - 1 * SecondsPerMinute, tt>>
Consume(rt, tt, tc) ==
    <<rt - 1 * SecondsPerMinute, tt - tc * SecondsPerMinute>>

\* __init__, lines 9-15
RateLimiterInitWith(rpm, tpm) ==
    /\ request_tokens = rpm * SecondsPerMinute
    /\ token_tokens = tpm * SecondsPerMinute
    /\ time_passed = 0
    /\ lock = NoTask
    /\ pc = [t \in Tasks |-> "idle"]
    /\ token_count = [t \in Tasks |-> 0]
    /\ depth = [t \in Tasks |-> 0]
    /\ sleep_left = [t \in Tasks |-> 0]

RateLimiterInit == RateLimiterInitWith(rpm_limit, tpm_limit)

\* a task calls acquire(tc) and arrives at "async with self.lock" (line 20)
CallAcquire(t) ==
    /\ pc[t] = "idle"
    /\ \E tc \in TokenCounts : token_count' = [token_count EXCEPT ![t] = tc]
    /\ pc' = [pc EXCEPT ![t] = "lock"]
    /\ depth' = [depth EXCEPT ![t] = 0]
    /\ UNCHANGED <<request_tokens, token_tokens, time_passed, lock, sleep_left>>
    /\ UNCHANGED <<cbVars, llmVars, healVars, sigVars>>

\* line 20, "async with self.lock": the lock can be taken when nobody holds
\* it; a variant without the lock
LockIsFreeAlways(l) == TRUE
LockIsFree(l) == l = NoTask

\* lines 20-49 up to the first suspension: take the lock (asyncio.Lock is not
\* reentrant: it must be free, whoever asks), refill, check, and either
\* consume and leave the "async with" (releasing the lock) or start the sleep
\* of line 44 with the lock still held.  (The limiter's part of the step,
\* for a limiter constructed with rpm and tpm.)
EnterWith(t, rpm, tpm) ==
    /\ pc[t] = "lock"
    /\ LockIsFree(lock)
    /\ LET rt == Refill(request_tokens, rpm, time_passed)
           tt == Refill(token_tokens, tpm, time_passed)
           tc == token_count[t]
       IN  /\ time_passed' = 0
           /\ IF TooFew(rt, tt, tc) /\ WaitTimeFor(rt, tt, tc, rpm, tpm) > 0
              THEN /\ request_tokens' = rt
                   /\ token_tokens' = tt
                   /\ lock' = t
                   /\ sleep_left' = [sleep_left EXCEPT
                                       ![t] = WaitTimeFor(rt, tt, tc, rpm, tpm)]
                   /\ pc' = [pc EXCEPT ![t] = "sleeping"]
                   /\ token_count' = token_count
              ELSE /\ request_tokens' = Consume(rt, tt, tc)[1]
                   /\ token_tokens' = Consume(rt, tt, tc)[2]
                   /\ lock' = NoTask
                   /\ sleep_left' = sleep_left
                   /\ pc' = [pc EXCEPT ![t] = "idle"]
                   /\ token_count' = [token_count EXCEPT ![t] = 0]
    /\ UNCHANGED depth

Enter(t) ==
    /\ EnterWith(t, rpm_limit, tpm_limit)
    /\ UNCHANGED <<cbVars, llmVars, healVars, sigVars>>

\* the step of Enter(t) that admits the call, and the one that makes it wait
Admitted(t) == pc[t] = "lock" /\ pc'[t] = "idle"
MadeToWait(t) == pc[t] = "lock" /\ pc'[t] = "sleeping"

\* line 44 returns and line 45 calls acquire again, inside the "async with":
\* the task arrives at line 20 one frame deeper, still holding the lock
Wake(t) ==
    /\ pc[t] = "sleeping"
    /\ sleep_left[t] = 0
    /\ pc' = [pc EXCEPT ![t] = "lock"]
    /\ depth' = [depth EXCEPT ![t] = depth[t] + 1]
    /\ UNCHANGED <<request_tokens, token_tokens, time_passed, lock, token_count,
                   sleep_left>>
    /\ UNCHANGED <<cbVars, llmVars, healVars, sigVars>>

\* reset, lines 60-64 (takes no lock)
Reset ==
    /\ request_tokens' = rpm_limit * SecondsPerMinute
    /\ token_tokens' = tpm_limit * SecondsPerMinute
    /\ time_passed' = 0
    /\ UNCHANGED <<lock, pc, token_count, depth, sleep_left>>
    /\ UNCHANGED <<cbVars, llmVars, healVars, sigVars>>

\* time.time() advances by TickSeconds.  After 60 s both buckets refill to
\* their limits whatever they held, so time_passed saturates there.
Tick ==
    /\ time_passed' = Min(SecondsPerMinute, time_passed + TickSeconds)
    /\ sleep_left' = [t \in Tasks |-> Max(0, sleep_left[t] - TickSeconds)]
    /\ UNCHANGED <<request_tokens, token_tokens, lock, pc, token_count, depth>>
    /\ UNCHANGED <<cbVars, llmVars, healVars, sigVars>>

----------------------------------------------------------------------------
(***************************************************************************)
(* CloudRunDeployer._deploy_service_with_circuit_breaker, called once per   *)
(* service by deploy_application (line 39).  The breaker's state, counters *)
(* and last_failure_time are local variables of the call (lines 139-146).  *)
(* Time is in seconds; the two ages saturate just above recovery_timeout,  *)
(* from where the comparison of line 151 no longer changes.                *)
(***************************************************************************)

failure_threshold == 3
recovery_timeout == 60
max_retries == 3

\* deploy calls for the service in one run, and the clock's step in seconds
MaxDeployCalls == 3
DeployTickSeconds == 20

AgeSaturated == recovery_timeout + 1

NoResult == [success |-> FALSE, circuit_breaker_state |-> "NONE",
             rejected |-> FALSE]

\* before the first call
DeployerInit ==
    /\ cb_pc = "idle"
    /\ circuit_breaker_state = "CLOSED"
    /\ failure_count = 0
    /\ retry_count = 0
    /\ last_failure_age = AgeSaturated
    /\ backoff_left = 0
    /\ service_result = NoResult
    /\ deploy_calls = 0
    /\ consecutive_failures = 0
    /\ since_failure = AgeSaturated

\* lines 139-146: what a call starts from.  last_failure_time = 0 is the
\* epoch, further back than any recovery_timeout.
FreshBreaker == <<"CLOSED", 0, AgeSaturated, 0>>

\* deploy_application, line 39: a call for the service begins
DeployCall ==
    /\ cb_pc = "idle"
    /\ deploy_calls < MaxDeployCalls
    /\ deploy_calls' = deploy_calls + 1
    /\ circuit_breaker_state' = FreshBreaker[1]
    /\ failure_count' = FreshBreaker[2]
    /\ last_failure_age' = FreshBreaker[3]
    /\ retry_count' = FreshBreaker[4]
    /\ cb_pc' = "loop"
    /\ UNCHANGED <<backoff_left, service_result, consecutive_failures,
                   since_failure>>
    /\ UNCHANGED <<rlVars, llmVars, healVars, sigVars>>

\* lines 148-160: the loop's test and the breaker's guard
LoopHead ==
    /\ cb_pc = "loop"
    /\ IF retry_count >= max_retries
       THEN \* the while loop ends and the function returns None
            /\ cb_pc' = "idle"
            /\ service_result' = NoResult
            /\ UNCHANGED circuit_breaker_state
       ELSE IF circuit_breaker_state = "OPEN"
            THEN IF last_failure_age > recovery_timeout
                 THEN /\ circuit_breaker_state' = "HALF_OPEN"
                      /\ cb_pc' = "create"
                      /\ UNCHANGED service_result
                 ELSE /\ cb_pc' = "idle"
                      /\ service_result' =
                            [success |-> FALSE,
                             circuit_breaker_state |-> circuit_breaker_state,
                             rejected |-> TRUE]
                      /\ UNCHANGED circuit_breaker_state
            ELSE /\ cb_pc' = "create"
                 /\ UNCHANGED <<circuit_breaker_state, service_result>>
    /\ UNCHANGED <<failure_count, retry_count, last_failure_age, backoff_left,
                   deploy_calls, consecutive_failures, since_failure>>
    /\ UNCHANGED <<rlVars, llmVars, healVars, sigVars>>

\* lines 162-185: create_service and operation.result succeed
CreateSucceeds ==
    /\ cb_pc = "create"
    /\ LET closing == circuit_breaker_state = "HALF_OPEN"
           state == IF closing THEN "CLOSED" ELSE circuit_breaker_state
       IN  /\ circuit_breaker_state' = state
           /\ failure_count' = IF closing THEN 0 ELSE failure_count
           /\ service_result' = [success |-> TRUE,
                                 circuit_breaker_state |-> state,
                                 rejected |-> FALSE]
    /\ cb_pc' = "idle"
    /\ consecutive_failures' = 0
    /\ UNCHANGED <<retry_count, last_failure_age, backoff_left, deploy_calls,
                   since_failure>>
    /\ UNCHANGED <<rlVars, llmVars, healVars, sigVars>>

\* lines 195-196: the breaker after a failure that made failure_count count;
\* a variant that opens one failure early
BreakerAfterFailureEarly(state, count) ==
    IF count >= failure_threshold - 1 THEN "OPEN" ELSE state
BreakerAfterFailure(state, count) ==
    IF count >= failure_threshold THEN "OPEN" ELSE state

\* lines 187-213: create_service or operation.result raises
CreateFails ==
    /\ cb_pc = "create"
    /\ retry_count' = retry_count + 1
    /\ failure_count' = failure_count + 1
    /\ last_failure_age' = 0
    /\ since_failure' = 0
    /\ consecutive_failures' = Min(consecutive_failures + 1, failure_threshold)
    /\ LET state == BreakerAfterFailure(circuit_breaker_state,
                                        failure_count + 1)
       IN  /\ circuit_breaker_state' = state
           /\ IF retry_count + 1 < max_retries /\ state # "OPEN"
              THEN \* line 201: 2 ** retry_count plus a fraction of a second
                   /\ backoff_left' = 2 ^ (retry_count + 1) + 1
                   /\ cb_pc' = "backoff"
                   /\ UNCHANGED service_result
              ELSE /\ cb_pc' = "idle"
                   /\ service_result' = [success |-> FALSE,
                                         circuit_breaker_state |-> state,
                                         rejected |-> FALSE]
                   /\ UNCHANGED backoff_left
    /\ UNCHANGED deploy_calls
    /\ UNCHANGED <<rlVars, llmVars, healVars, sigVars>>

\* line 205: self._adjust_config_for_retry(service_config, e); the method is
\* not in the source: it hands back a configuration for the same service
AdjustConfigForRetry(name) == name

\* lines 202-205: the backoff ends, the configuration is adjusted and the
\* loop goes round
BackoffDone ==
    /\ cb_pc = "backoff"
    /\ backoff_left = 0
    /\ AdjustConfigForRetry("service") = "service"
    /\ cb_pc' = "loop"
    /\ UNCHANGED <<circuit_breaker_state, failure_count, retry_count,
                   last_failure_age, backoff_left, service_result, deploy_calls,
                   consecutive_failures, since_failure>>
    /\ UNCHANGED <<rlVars, llmVars, healVars, sigVars>>

\* time.time() advances
DeployTick ==
    /\ last_failure_age' = Min(AgeSaturated, last_failure_age + DeployTickSeconds)
    /\ since_failure' = Min(AgeSaturated, since_failure + DeployTickSeconds)
    /\ backoff_left' = Max(0, backoff_left - DeployTickSeconds)
    /\ UNCHANGED <<cb_pc, circuit_breaker_state, failure_count, retry_count,
                   service_result, deploy_calls, consecutive_failures>>
    /\ UNCHANGED <<rlVars, llmVars, healVars, sigVars>>

----------------------------------------------------------------------------
(***************************************************************************)
(* LLMManager.  A provider's generate (line 71) is the only suspension     *)
(* point of a pass: _update_metrics and _check_provider_health are         *)
(* coroutines without an await of their own, so the code between two       *)
(* provider calls runs as one step.  average_latency is left out: nothing  *)
(* branches on it.  error_rate is kept exactly, as <<failures, total>>.    *)
(***************************************************************************)

\* backoff.on_exception(..., max_tries=3, ...), line 46
max_tries == 3
\* line 118: total_requests > 10
MinRequestsForUnhealthy == 10

\* concurrent generate calls, and provider calls started in one run (a
\* provider call that would exceed it is left pending)
NumRequests == 2
MaxCalls == 5
Requests == 1..NumRequests

Backends == {"A", "B", "C"}
NoProvider == "None"
\* preferred_provider arguments tried: none, and the last in priority
PreferredChoices == {NoProvider, "C"}
\* the providers an operator marks healthy again
MarkChoices == {"A"}

\* add_provider, lines 24-29
NewMetrics == [total_requests |-> 0, successful_requests |-> 0,
               error_rate |-> <<0, 1>>]

\* _update_metrics, lines 95-110; a variant whose update is lost, and a
\* variant that forgets line 102
UpdateMetricsLost(m, success) == m
UpdateMetricsNoSuccess(m, success) ==
    [total_requests |-> m.total_requests + 1,
     successful_requests |-> m.successful_requests,
     error_rate |-> <<m.total_requests + 1 - m.successful_requests,
                      m.total_requests + 1>>]
UpdateMetrics(m, success) ==
    LET total == m.total_requests + 1
        succ == m.successful_requests + (IF success THEN 1 ELSE 0)
    IN  [total_requests |-> total, successful_requests |-> succ,
         error_rate |-> <<total - succ, total>>]

\* line 118 without its second condition: error_rate > 0.5 on any sample
TooManyErrorsAnySample(m) ==
    2 * m.error_rate[1] > m.error_rate[2]

\* line 118: error_rate > 0.5 and total_requests > 10
TooManyErrors(m) ==
    /\ 2 * m.error_rate[1] > m.error_rate[2]
    /\ m.total_requests > MinRequestsForUnhealthy

\* _check_provider_health, lines 112-120
CheckProviderHealth(h, m, name) ==
    IF TooManyErrors(m) THEN [h EXCEPT ![name] = FALSE] ELSE h

\* self.health_status.get(name, False); a variant that takes every provider
\* for healthy
HealthGetAnyone(name) == TRUE
HealthGet(name) ==
    IF name \in DOMAIN health_status THEN health_status[name] ELSE FALSE

Contains(seq, x) == \E i \in 1..Len(seq) : seq[i] = x

\* lines 59-62: the loop over provider_priority
RECURSIVE AddOthers(_, _)
AddOthers(acc, i) ==
    IF i > Len(provider_priority) THEN acc
    ELSE LET name == provider_priority[i]
         IN  AddOthers(IF ~Contains(acc, name) /\ HealthGet(name)
                       THEN Append(acc, name) ELSE acc,
                       i + 1)

\* lines 54-57, the preferred provider; variants that drop one of its tests
PreferredFirstUnchecked(pref) ==
    IF pref # NoProvider /\ pref \in providers THEN <<pref>> ELSE <<>>
PreferredFirst(pref) ==
    IF pref # NoProvider /\ pref \in providers /\ HealthGet(pref)
    THEN <<pref>> ELSE <<>>

\* lines 52-62; a variant that appends the preferred provider last
BuildCandidatesPreferredLast(pref) ==
    LET rest == SelectSeq(AddOthers(<<>>, 1), LAMBDA x : x # pref)
    IN  rest \o PreferredFirst(pref)
BuildCandidates(pref) == AddOthers(PreferredFirst(pref), 1)

\* what earlier traffic can have left behind a provider: nothing, 10 failed
\* calls, 11 failed calls (the 11th marked it unhealthy, line 119)
Fresh == <<NewMetrics, TRUE>>
OnTheBrink == <<[total_requests |-> 10, successful_requests |-> 0,
                 error_rate |-> <<10, 10>>], TRUE>>
Unhealthy == <<[total_requests |-> 11, successful_requests |-> 0,
                error_rate |-> <<11, 11>>], FALSE>>

\* the registries the model starts from
StartingPoints ==
    { [A |-> Fresh, B |-> Fresh, C |-> Fresh],
      [A |-> Unhealthy, B |-> Fresh, C |-> Fresh],
      [A |-> Fresh, B |-> OnTheBrink, C |-> Fresh],
      [A |-> Unhealthy, B |-> Unhealthy, C |-> Unhealthy] }

NoOutcome == [kind |-> "none", provider_used |-> NoProvider,
              last_error |-> NoProvider]

\* add_provider("A", _, 0), add_provider("B", _, 1), add_provider("C", _, 2),
\* lines 19-32, and no generate call yet
ManagerInit ==
    /\ providers = Backends
    /\ provider_priority = <<"A", "B", "C">>
    /\ health_status = [b \in Backends |-> TRUE]
    /\ performance_metrics = [b \in Backends |-> NewMetrics]
    /\ g_pc = [r \in Requests |-> "idle"]
    /\ preferred = [r \in Requests |-> NoProvider]
    /\ providers_to_try = [r \in Requests |-> <<>>]
    /\ position = [r \in Requests |-> 0]
    /\ last_exception = [r \in Requests |-> NoProvider]
    /\ tries = [r \in Requests |-> 0]
    /\ outcome = [r \in Requests |-> NoOutcome]
    /\ invoked = [r \in Requests |-> <<>>]
    /\ failed = [r \in Requests |-> <<>>]
    /\ in_flight = [r \in Requests |-> <<>>]
    /\ calls_started = 0
    /\ registered_priority = [A |-> 0, B |-> 1, C |-> 2]
    /\ submitted = 0
    /\ acquired = FALSE
    /\ deadline_passed = FALSE

\* the same with earlier traffic behind the providers
ManagerInitUsed ==
    /\ providers = Backends
    /\ provider_priority = <<"A", "B", "C">>
    /\ \E start \in StartingPoints :
          /\ performance_metrics = [b \in Backends |-> start[b][1]]
          /\ health_status = [b \in Backends |-> start[b][2]]
    /\ g_pc = [r \in Requests |-> "idle"]
    /\ preferred = [r \in Requests |-> NoProvider]
    /\ providers_to_try = [r \in Requests |-> <<>>]
    /\ position = [r \in Requests |-> 0]
    /\ last_exception = [r \in Requests |-> NoProvider]
    /\ tries = [r \in Requests |-> 0]
    /\ outcome = [r \in Requests |-> NoOutcome]
    /\ invoked = [r \in Requests |-> <<>>]
    /\ failed = [r \in Requests |-> <<>>]
    /\ in_flight = [r \in Requests |-> <<>>]
    /\ calls_started = 0
    /\ registered_priority = [A |-> 0, B |-> 1, C |-> 2]
    /\ submitted = 0
    /\ acquired = FALSE
    /\ deadline_passed = FALSE

\* line 71, "result = await provider.generate(request)": the call is in
\* flight from the moment it is made until the await hands back its result or
\* its exception; a variant in which the loop does not wait for it
CallBegins(calls, name) == Append(calls, name)
CallEndsNever(calls, name) == calls
CallEnds(calls, name) ==
    LET i == CHOOSE k \in 1..Len(calls) :
                 calls[k] = name /\ \A j \in 1..(k - 1) : calls[j] # name
    IN  SubSeq(calls, 1, i - 1) \o SubSeq(calls, i + 1, Len(calls))

\* the decorator of lines 43-48 with one more try than max_tries
PassRaisesOneMore(r, error, n, timeUp) ==
    IF n < max_tries + 1 /\ ~timeUp
    THEN /\ g_pc' = [g_pc EXCEPT ![r] = "backoff"]
         /\ outcome' = outcome
    ELSE /\ g_pc' = [g_pc EXCEPT ![r] = "raised"]
         /\ outcome' = [outcome EXCEPT ![r] =
                           [kind |-> "AllProvidersFailed",
                            provider_used |-> NoProvider,
                            last_error |-> error]]

\* line 93, seen through the decorator of lines 43-48: the pass raised for
\* the n-th time.  backoff hands the exception to the caller once max_tries
\* passes were made or max_time is used up, and otherwise sleeps and retries.
PassRaises(r, error, n, timeUp) ==
    IF n < max_tries /\ ~timeUp
    THEN /\ g_pc' = [g_pc EXCEPT ![r] = "backoff"]
         /\ outcome' = outcome
    ELSE /\ g_pc' = [g_pc EXCEPT ![r] = "raised"]
         /\ outcome' = [outcome EXCEPT ![r] =
                           [kind |-> "AllProvidersFailed",
                            provider_used |-> NoProvider,
                            last_error |-> error]]

\* a caller calls generate(request, pref)
Generate(r) ==
    /\ g_pc[r] = "idle"
    /\ \E pref \in PreferredChoices : preferred' = [preferred EXCEPT ![r] = pref]
    /\ g_pc' = [g_pc EXCEPT ![r] = "start"]
    /\ UNCHANGED <<providers_to_try, position, last_exception, tries, outcome,
                   invoked, failed, in_flight, calls_started>>
    /\ UNCHANGED <<rlVars, cbVars, regVars, scnVars, healVars, sigVars>>

\* lines 52-71: a pass begins (the first, or one started by backoff): build
\* providers_to_try and call the first candidate; with no candidate, line 93.
\* The run makes at most maxCalls provider calls.
StartPassUpTo(r, maxCalls) ==
    /\ g_pc[r] \in {"start", "backoff"}
    /\ tries' = [tries EXCEPT ![r] = tries[r] + 1]
    /\ LET cands == BuildCandidates(preferred[r])
       IN  /\ providers_to_try' = [providers_to_try EXCEPT ![r] = cands]
           /\ last_exception' = [last_exception EXCEPT ![r] = NoProvider]
           /\ failed' = [failed EXCEPT ![r] = <<>>]
           /\ IF cands # <<>>
              THEN /\ calls_started < maxCalls
                   /\ calls_started' = calls_started + 1
                   /\ position' = [position EXCEPT ![r] = 1]
                   /\ invoked' = [invoked EXCEPT ![r] = <<cands[1]>>]
                   /\ in_flight' = [in_flight EXCEPT
                                       ![r] = CallBegins(in_flight[r], cands[1])]
                   /\ g_pc' = [g_pc EXCEPT ![r] = "awaiting"]
                   /\ outcome' = outcome
              ELSE /\ calls_started' = calls_started
                   /\ position' = [position EXCEPT ![r] = 0]
                   /\ invoked' = [invoked EXCEPT ![r] = <<>>]
                   /\ in_flight' = in_flight
                   \* no provider was awaited: the pass took no time
                   /\ PassRaises(r, NoProvider, tries[r] + 1, FALSE)
    /\ UNCHANGED preferred
    /\ UNCHANGED <<rlVars, cbVars, regVars, scnVars, healVars, sigVars>>

StartPass(r) == StartPassUpTo(r, MaxCalls)

\* lines 71-80: the provider's generate returns a result (the provider being
\* registered still, so that line 98 finds its metrics)
CallSucceeds(r) ==
    /\ g_pc[r] = "awaiting"
    /\ providers_to_try[r][position[r]] \in DOMAIN performance_metrics
    /\ LET name == providers_to_try[r][position[r]]
       IN  /\ performance_metrics' =
                 [performance_metrics EXCEPT
                     ![name] = UpdateMetrics(performance_metrics[name], TRUE)]
           /\ outcome' = [outcome EXCEPT ![r] =
                             [kind |-> "result", provider_used |-> name,
                              last_error |-> NoProvider]]
           /\ in_flight' = [in_flight EXCEPT ![r] = CallEnds(in_flight[r], name)]
    /\ g_pc' = [g_pc EXCEPT ![r] = "returned"]
    /\ UNCHANGED <<providers, provider_priority, health_status,
                   registered_priority>>
    /\ UNCHANGED <<preferred, providers_to_try, position, last_exception,
                   tries, invoked, failed, calls_started>>
    /\ UNCHANGED <<rlVars, cbVars, scnVars, healVars, sigVars>>

\* lines 82-90: where the loop goes after a failed candidate; a variant that
\* gives up at the first failure
NextPositionNone(r) == Len(providers_to_try[r]) + 1
NextPosition(r) == position[r] + 1

\* lines 71, 82-93: the provider's generate raises; metrics and health are
\* updated and the next candidate is called, or the pass ends at line 93.
\* The calls of the pass took any amount of time, so max_time may be used up
\* when the pass ends.  The run makes at most maxCalls provider calls.  (The
\* provider, and the candidate after it, being registered still.)
CallFailsUpTo(r, maxCalls) ==
    /\ g_pc[r] = "awaiting"
    /\ providers_to_try[r][position[r]] \in DOMAIN performance_metrics
    /\ NextPosition(r) <= Len(providers_to_try[r])
          => providers_to_try[r][NextPosition(r)] \in providers
    /\ LET name == providers_to_try[r][position[r]]
           metrics == UpdateMetrics(performance_metrics[name], FALSE)
           next == NextPosition(r)
       IN  /\ last_exception' = [last_exception EXCEPT ![r] = name]
           /\ failed' = [failed EXCEPT ![r] = Append(failed[r], name)]
           /\ performance_metrics' =
                 [performance_metrics EXCEPT ![name] = metrics]
           /\ health_status' = CheckProviderHealth(health_status, metrics, name)
           /\ IF next <= Len(providers_to_try[r])
              THEN /\ calls_started < maxCalls
                   /\ calls_started' = calls_started + 1
                   /\ position' = [position EXCEPT ![r] = next]
                   /\ invoked' = [invoked EXCEPT ![r] =
                                     Append(invoked[r], providers_to_try[r][next])]
                   /\ in_flight' =
                         [in_flight EXCEPT
                             ![r] = CallBegins(CallEnds(in_flight[r], name),
                                               providers_to_try[r][next])]
                   /\ UNCHANGED <<g_pc, outcome>>
              ELSE /\ UNCHANGED <<position, invoked, calls_started>>
                   /\ in_flight' = [in_flight EXCEPT
                                       ![r] = CallEnds(in_flight[r], name)]
                   /\ \E timeUp \in BOOLEAN :
                         PassRaises(r, name, tries[r], timeUp)
    /\ UNCHANGED <<providers, provider_priority, registered_priority>>
    /\ UNCHANGED <<preferred, providers_to_try, tries>>
    /\ UNCHANGED <<rlVars, cbVars, scnVars, healVars, sigVars>>

CallFails(r) == CallFailsUpTo(r, MaxCalls)

\* mark_provider_healthy, lines 131-134
MarkProviderHealthy(name) ==
    /\ name \in providers
    /\ ~health_status[name]
    /\ health_status' = [health_status EXCEPT ![name] = TRUE]
    /\ UNCHANGED <<providers, provider_priority, performance_metrics,
                   registered_priority>>
    /\ UNCHANGED <<g_pc, preferred, providers_to_try, position, last_exception,
                   tries, outcome, invoked, failed, in_flight, calls_started>>
    /\ UNCHANGED <<rlVars, cbVars, scnVars, healVars, sigVars>>

\* list.insert(index, x): an index past the end appends
InsertAt(list, index, x) ==
    LET k == Min(index, Len(list))
    IN  SubSeq(list, 1, k) \o <<x>> \o SubSeq(list, k + 1, Len(list))

\* dict[key] = value
DictSet(dict, key, value) ==
    [k \in DOMAIN dict \cup {key} |-> IF k = key THEN value ELSE dict[k]]

\* priority arguments tried, and entries provider_priority may grow to
MaxPriority == 2
MaxRegistered == 3
Priorities == 0..MaxPriority

\* __init__, lines 13-17: nothing registered, no generate call yet
ManagerInitEmpty ==
    /\ providers = {}
    /\ provider_priority = <<>>
    /\ health_status = <<>>
    /\ performance_metrics = <<>>
    /\ registered_priority = <<>>
    /\ g_pc = [r \in Requests |-> "idle"]
    /\ preferred = [r \in Requests |-> NoProvider]
    /\ providers_to_try = [r \in Requests |-> <<>>]
    /\ position = [r \in Requests |-> 0]
    /\ last_exception = [r \in Requests |-> NoProvider]
    /\ tries = [r \in Requests |-> 0]
    /\ outcome = [r \in Requests |-> NoOutcome]
    /\ invoked = [r \in Requests |-> <<>>]
    /\ failed = [r \in Requests |-> <<>>]
    /\ in_flight = [r \in Requests |-> <<>>]
    /\ calls_started = 0
    /\ submitted = 0
    /\ acquired = FALSE
    /\ deadline_passed = FALSE

\* add_provider(name, provider, priority), lines 19-32
AddProvider(name, priority) ==
    /\ Len(provider_priority) < MaxRegistered
    /\ providers' = providers \cup {name}
    /\ health_status' = DictSet(health_status, name, TRUE)
    /\ performance_metrics' = DictSet(performance_metrics, name, NewMetrics)
    /\ provider_priority' = InsertAt(provider_priority, priority, name)
    /\ registered_priority' = DictSet(registered_priority, name, priority)
    /\ UNCHANGED <<genVars, scnVars>>
    /\ UNCHANGED <<rlVars, cbVars, healVars, sigVars>>

\* del dict[key]
DictDel(dict, key) == [k \in DOMAIN dict \ {key} |-> dict[k]]

\* list.remove(x): the first occurrence goes
ListRemove(list, x) ==
    LET i == CHOOSE k \in 1..Len(list) :
                 list[k] = x /\ \A j \in 1..(k - 1) : list[j] # x
    IN  SubSeq(list, 1, i - 1) \o SubSeq(list, i + 1, Len(list))

\* remove_provider(name), lines 34-41 (for a name that is registered;
\* otherwise it does nothing)
RemoveProvider(name) ==
    /\ name \in providers
    /\ providers' = providers \ {name}
    /\ health_status' = DictDel(health_status, name)
    /\ performance_metrics' = DictDel(performance_metrics, name)
    /\ provider_priority' = IF Contains(provider_priority, name)
                            THEN ListRemove(provider_priority, name)
                            ELSE provider_priority
    /\ UNCHANGED <<registered_priority, genVars, scnVars>>
    /\ UNCHANGED <<rlVars, cbVars, healVars, sigVars>>

\* a KeyError leaves generate and reaches the decorator of lines 43-48 after
\* the n-th pass
KeyErrorEscapes(r, n, timeUp) ==
    IF n < max_tries /\ ~timeUp
    THEN /\ g_pc' = [g_pc EXCEPT ![r] = "backoff"]
         /\ outcome' = outcome
    ELSE /\ g_pc' = [g_pc EXCEPT ![r] = "raised"]
         /\ outcome' = [outcome EXCEPT ![r] =
                           [kind |-> "KeyError",
                            provider_used |-> NoProvider,
                            last_error |-> "KeyError"]]

\* the provider awaited was removed meanwhile, and its generate returns or
\* raises: self.performance_metrics[provider_name] (line 98) raises KeyError,
\* from line 75 into the except block of line 82 if the call returned, and
\* in any case from line 87, inside the except block, out of generate
RemovedCallEnds(r) ==
    /\ g_pc[r] = "awaiting"
    /\ providers_to_try[r][position[r]] \notin DOMAIN performance_metrics
    /\ LET name == providers_to_try[r][position[r]]
       IN  /\ \E returned \in BOOLEAN :
                 /\ failed' = [failed EXCEPT ![r] =
                                  IF returned THEN failed[r]
                                  ELSE Append(failed[r], name)]
                 /\ last_exception' = [last_exception EXCEPT ![r] =
                                          IF returned THEN "KeyError" ELSE name]
           /\ in_flight' = [in_flight EXCEPT ![r] = CallEnds(in_flight[r], name)]
    /\ \E timeUp \in BOOLEAN : KeyErrorEscapes(r, tries[r], timeUp)
    /\ UNCHANGED <<preferred, providers_to_try, position, tries, invoked,
                   calls_started>>
    /\ UNCHANGED <<regVars, rlVars, cbVars, scnVars, healVars, sigVars>>

\* the provider awaited raises and the candidate after it was removed
\* meanwhile: after the updates of lines 87-88, self.providers[provider_name]
\* (line 68) raises KeyError into the except block, whose line 87 raises
\* KeyError out of generate
NextCandidateRemoved(r) ==
    /\ g_pc[r] = "awaiting"
    /\ providers_to_try[r][position[r]] \in DOMAIN performance_metrics
    /\ NextPosition(r) <= Len(providers_to_try[r])
    /\ providers_to_try[r][NextPosition(r)] \notin providers
    /\ LET name == providers_to_try[r][position[r]]
           metrics == UpdateMetrics(performance_metrics[name], FALSE)
       IN  /\ failed' = [failed EXCEPT ![r] = Append(failed[r], name)]
           /\ performance_metrics' =
                 [performance_metrics EXCEPT ![name] = metrics]
           /\ health_status' = CheckProviderHealth(health_status, metrics, name)
           /\ in_flight' = [in_flight EXCEPT ![r] = CallEnds(in_flight[r], name)]
    /\ last_exception' = [last_exception EXCEPT ![r] = "KeyError"]
    /\ \E timeUp \in BOOLEAN : KeyErrorEscapes(r, tries[r], timeUp)
    /\ UNCHANGED <<providers, provider_priority, registered_priority>>
    /\ UNCHANGED <<preferred, providers_to_try, position, tries, invoked,
                   calls_started>>
    /\ UNCHANGED <<rlVars, cbVars, scnVars, healVars, sigVars>>

\* ---- the scenario of 61 requests preferring a provider that always fails ----

\* rate_limit_rpm and rate_limit_tpm of the providers (base.py, lines
\* 24-25), the requests submitted, and max_tokens of each
RequestsPerMinute == 60
TokensPerMinute == 100000
ScenarioRequests == RequestsPerMinute + 1
ScenarioMaxTokens == 1
\* dispatches made after them
ScenarioLater == 2
\* provider calls all of them can make
ScenarioCalls == 2 * (ScenarioRequests + ScenarioLater)
FailingProvider == "A"

\* a caller submits the next generate(request, pref), the one before it
\* having returned: the first ScenarioRequests prefer the failing provider
Submit ==
    /\ g_pc[1] \in {"idle", "returned"}
    /\ submitted < ScenarioRequests + ScenarioLater
    /\ submitted' = submitted + 1
    /\ \E pref \in {NoProvider, FailingProvider} :
          /\ submitted < ScenarioRequests => pref = FailingProvider
          /\ preferred' = [preferred EXCEPT ![1] = pref]
    /\ g_pc' = [g_pc EXCEPT ![1] = "start"]
    /\ tries' = [tries EXCEPT ![1] = 0]
    /\ outcome' = [outcome EXCEPT ![1] = NoOutcome]
    /\ providers_to_try' = [providers_to_try EXCEPT ![1] = <<>>]
    /\ position' = [position EXCEPT ![1] = 0]
    /\ last_exception' = [last_exception EXCEPT ![1] = NoProvider]
    /\ invoked' = [invoked EXCEPT ![1] = <<>>]
    /\ failed' = [failed EXCEPT ![1] = <<>>]
    /\ acquired' = FALSE
    /\ UNCHANGED <<in_flight, calls_started, deadline_passed>>
    /\ UNCHANGED <<rlVars, cbVars, regVars, healVars, sigVars>>

\* the failing provider's generate raises, every time
FailingCallFails ==
    /\ g_pc[1] = "awaiting"
    /\ providers_to_try[1][position[1]] = FailingProvider
    /\ CallFailsUpTo(1, ScenarioCalls)

\* any other provider's generate (openai_provider.py and its like) first
\* awaits self.rate_limiter.acquire(request.max_tokens) ...
ProviderAcquire ==
    /\ g_pc[1] = "awaiting"
    /\ providers_to_try[1][position[1]] # FailingProvider
    /\ ~acquired
    /\ CallAcquire(1)
    /\ token_count'[1] = ScenarioMaxTokens

ProviderEnter ==
    /\ EnterWith(1, RequestsPerMinute, TokensPerMinute)
    /\ acquired' = (pc'[1] = "idle")
    /\ UNCHANGED <<submitted, deadline_passed>>
    /\ UNCHANGED <<regVars, genVars, cbVars, healVars, sigVars>>

\* ... and, once admitted, returns a result
WorkingCallSucceeds ==
    /\ g_pc[1] = "awaiting"
    /\ providers_to_try[1][position[1]] # FailingProvider
    /\ acquired
    /\ CallSucceeds(1)

----------------------------------------------------------------------------
(***************************************************************************)
(* SelfHealingSystem._generate_error_signature, lines 103-110.  Strings    *)
(* are sequences of characters, and the f-string of line 110 is the        *)
(* concatenation it is.  hash() of a string is some function of its        *)
(* characters, fixed for the life of the process; a position-weighted sum  *)
(* stands for it.                                                          *)
(***************************************************************************)

\* str(error)[:100], line 107
MessagePrefix == 100

\* context.get("component", "unknown"), line 108
DefaultComponent == <<"u", "n", "k", "n", "o", "w", "n">>

DigitChars == <<"0", "1", "2", "3", "4", "5", "6", "7", "8", "9">>

\* an integer as the f-string prints it
RECURSIVE Str(_)
Str(n) ==
    IF n < 10 THEN <<DigitChars[n + 1]>>
    ELSE Str(n \div 10) \o <<DigitChars[(n % 10) + 1]>>

\* the characters the model's strings are made of
Alphabet == <<"_", "E", "a", "b", "j", "x", "1", "2",
              "u", "n", "k", "o", "w">>
Code(ch) == CHOOSE i \in 1..Len(Alphabet) : Alphabet[i] = ch

HashModulus == 65521

\* hash(s), line 107: the characters weighted by their positions (summed by
\* halves)
RECURSIVE WeightedSum(_, _, _)
WeightedSum(s, from, to) ==
    IF from > to THEN 0
    ELSE IF from = to THEN Code(s[from]) * from
    ELSE LET mid == (from + to) \div 2
         IN  WeightedSum(s, from, mid) + WeightedSum(s, mid + 1, to)
Hash(s) == WeightedSum(s, 1, Len(s)) % HashModulus

\* str(error)[:100]
Truncated(message) == SubSeq(message, 1, Min(Len(message), MessagePrefix))

\* context.get(key, default)
ContextGet(context, key, default) ==
    IF key \in DOMAIN context THEN context[key] ELSE default

\* type(error).__name__, line 106: the class's name, without its module
TypeName(error) == error.type.name

\* lines 106-110
GenerateErrorSignature(error, context) ==
    TypeName(error) \o <<"_">>
        \o ContextGet(context, "component", DefaultComponent) \o <<"_">>
        \o Str(Hash(Truncated(error.message)))

\* the errors and contexts tried.  Messages: short ones that differ in a
\* request id, and long ones that differ in their 100th or in their 101st
\* character only.
Pad(n) == [i \in 1..n |-> "x"]
\* exception classes: two of the same name in different modules, and one
\* with an underscore in its name
ErrorTypes ==
    { [module |-> "builtins", name |-> <<"E">>],
      [module |-> "lib", name |-> <<"E">>],
      [module |-> "lib", name |-> <<"E", "_", "a">>] }
Messages ==
    { <<"j", "1">>, <<"j", "2">>,
      Pad(MessagePrefix - 1) \o <<"1">>, Pad(MessagePrefix - 1) \o <<"2">>,
      Pad(MessagePrefix) \o <<"1">>, Pad(MessagePrefix) \o <<"2">> }
Errors == {[type |-> t, message |-> m] : t \in ErrorTypes, m \in Messages}
Components == {<<"b">>, <<"a", "_", "b">>}
OperationIds == {"task-1", "task-2"}
UserIds == {"user-1", "user-2"}
\* the context of generation.py, lines 235-243 (the fields nothing reads are
\* left out), and one that names no component
Contexts ==
    {[operation_id |-> o, component |-> c, user_id |-> u, project_id |-> "p"] :
        o \in OperationIds, c \in Components, u \in UserIds}
    \cup {[operation_id |-> o, user_id |-> u, project_id |-> "p"] :
             o \in OperationIds, u \in UserIds}

NoSignature == <<>>
SigCalls == 1..2

\* no call of _generate_error_signature is under way
SigInit ==
    /\ sig_error = [i \in SigCalls |-> [type |-> [module |-> "builtins", name |-> <<"E">>],
                       message |-> <<"j", "1">>]]
    /\ sig_context = [i \in SigCalls |->
                        [operation_id |-> "task-1", component |-> <<"b">>,
                         user_id |-> "user-1", project_id |-> "p"]]
    /\ sig_value = [i \in SigCalls |-> NoSignature]

\* two calls with any of the errors and contexts
SigInitAny ==
    /\ sig_error \in [SigCalls -> Errors]
    /\ sig_context \in [SigCalls -> Contexts]
    /\ sig_value = [i \in SigCalls |-> NoSignature]

----------------------------------------------------------------------------
(***************************************************************************)
(* SelfHealingSystem.heal_error, lines 48-101.  The helpers it awaits      *)
(* (_analyze_error_patterns, _perform_predictive_maintenance,              *)
(* _select_healing_strategy, _check_circuit_breaker,                       *)
(* _execute_healing_strategy, _update_circuit_breaker and                  *)
(* _update_learning_models) have no definition in the repository's         *)
(* sources: each either raises or does what sections 4.2 and 4.5 of the    *)
(* specification say.  Each await is one step.  Of healing_result the      *)
(* model keeps the flags and, of healing_actions, whether each of the two  *)
(* messages of lines 88 and 99 is in it.                                   *)
(***************************************************************************)

\* heal_error calls in one run
MaxHeals == 3

\* failure_threshold of the healing breaker (section 4.2)
HealFailureThreshold == 2

\* HealingStrategy, lines 10-16 (two of its members), and None
Strategies == {"retry_with_backoff", "fallback_to_template"}
NoStrategy == "None"

\* the arguments heal_error is called with
HealErrors == {[type |-> [module |-> "builtins", name |-> <<"E">>],
                       message |-> <<"j", "1">>]}
HealContexts ==
    { [operation_id |-> "task-1", component |-> <<"b">>,
       user_id |-> "user-1", project_id |-> "p"],
      [operation_id |-> "task-1", user_id |-> "user-1", project_id |-> "p"] }

\* lines 51-58
NewHealingResult ==
    [success |-> FALSE, healing_strategy_used |-> NoStrategy,
     blocked |-> FALSE, process_failed |-> FALSE,
     learning_updates |-> FALSE, requires_human_intervention |-> FALSE]

NoRecord == [signature |-> NoSignature, strategy |-> NoStrategy,
             success |-> FALSE]

\* lines 88-89; a variant without line 89
BlockedNoIntervention(result) == [result EXCEPT !.blocked = TRUE]
Blocked(result) ==
    [result EXCEPT !.blocked = TRUE, !.requires_human_intervention = TRUE]

\* lines 97-99: the except block
Except(result) == [result EXCEPT !.process_failed = TRUE]

\* line 83: healing_result.update(healing_execution)
UpdateResult(result, execution) ==
    [result EXCEPT !.success = execution.success,
                   !.healing_strategy_used = execution.healing_strategy_used]

\* a breaker nobody has touched yet (section 4.2: CLOSED)
NewBreaker == [state |-> "CLOSED", failure_count |-> 0]
BreakerOf(breakers, component) ==
    IF component \in DOMAIN breakers THEN breakers[component] ELSE NewBreaker
SetBreaker(breakers, component, breaker) ==
    [c \in DOMAIN breakers \cup {component} |->
        IF c = component THEN breaker ELSE breakers[c]]

\* _check_circuit_breaker (section 4.2): <<allowed, the breaker afterwards>>;
\* OPEN rejects until recovery_timeout has elapsed, then lets the probe through
CheckCircuitBreaker(breaker, timeoutElapsed) ==
    IF breaker.state = "OPEN"
    THEN IF timeoutElapsed
         THEN <<TRUE, [breaker EXCEPT !.state = "HALF_OPEN"]>>
         ELSE <<FALSE, breaker>>
    ELSE <<TRUE, breaker>>

\* _update_circuit_breaker (section 4.2)
UpdateCircuitBreaker(breaker, success) ==
    IF success THEN NewBreaker
    ELSE LET n == breaker.failure_count + 1
         IN  IF breaker.state = "HALF_OPEN" \/ n >= HealFailureThreshold
             THEN [state |-> "OPEN", failure_count |-> n]
             ELSE [state |-> "CLOSED", failure_count |-> n]

\* _update_learning_models (section 4.5, step 5): count the attempt and its
\* success for the (signature, strategy) pair
NewCounts == [attempt_count |-> 0, success_count |-> 0]
UpdateLearningModels(patterns, signature, strategy, success) ==
    LET key == <<signature, strategy>>
        old == IF key \in DOMAIN patterns THEN patterns[key] ELSE NewCounts
        new == [attempt_count |-> old.attempt_count + 1,
                success_count |-> old.success_count
                                     + (IF success THEN 1 ELSE 0)]
    IN  [k \in DOMAIN patterns \cup {key} |->
            IF k = key THEN new ELSE patterns[k]]

\* __init__, lines 29-46
HealInit ==
    /\ circuit_breakers = <<>>
    /\ error_patterns = <<>>
    /\ h_pc = "idle"
    /\ h_error = [type |-> [module |-> "builtins", name |-> <<"E">>],
                       message |-> <<"j", "1">>]
    /\ h_context = [operation_id |-> "task-1", user_id |-> "user-1",
                    project_id |-> "p"]
    /\ error_signature = NoSignature
    /\ healing_strategy = NoStrategy
    /\ healing_result = NewHealingResult
    /\ h_executed = "no"
    /\ h_recorded = NoRecord
    /\ h_raised = "no"
    /\ heal_calls = 0

\* a helper raised: lines 97-101, the except block and the return
Raised(helper) ==
    /\ healing_result' = Except(healing_result)
    /\ h_raised' = helper
    /\ h_pc' = "returned"

\* lines 48-63: heal_error(error, context) is called, up to its first await
HealError ==
    /\ h_pc \in {"idle", "returned"}
    /\ heal_calls < MaxHeals
    /\ heal_calls' = heal_calls + 1
    /\ \E error \in HealErrors, context \in HealContexts :
          /\ h_error' = error
          /\ h_context' = context
          /\ error_signature' = GenerateErrorSignature(error, context)
    /\ healing_result' = NewHealingResult
    /\ healing_strategy' = NoStrategy
    /\ h_executed' = "no"
    /\ h_recorded' = NoRecord
    /\ h_raised' = "no"
    /\ h_pc' = "analyze"
    /\ UNCHANGED <<circuit_breakers, error_patterns>>
    /\ UNCHANGED <<rlVars, cbVars, llmVars, sigVars>>

\* line 63: await self._analyze_error_patterns(...)
AnalyzeErrorPatterns ==
    /\ h_pc = "analyze"
    /\ \E raises \in BOOLEAN :
          IF raises THEN Raised("analyze")
          ELSE /\ h_pc' = "predict"
               /\ UNCHANGED <<healing_result, h_raised>>
    /\ UNCHANGED <<circuit_breakers, error_patterns, h_error, h_context,
                   error_signature, healing_strategy, h_executed, h_recorded,
                   heal_calls>>
    /\ UNCHANGED <<rlVars, cbVars, llmVars, sigVars>>

\* lines 66-67: await self._perform_predictive_maintenance(context)
PerformPredictiveMaintenance ==
    /\ h_pc = "predict"
    /\ \E raises \in BOOLEAN :
          IF raises THEN Raised("predict")
          ELSE /\ h_pc' = "select"
               /\ UNCHANGED <<healing_result, h_raised>>
    /\ UNCHANGED <<circuit_breakers, error_patterns, h_error, h_context,
                   error_signature, healing_strategy, h_executed, h_recorded,
                   heal_calls>>
    /\ UNCHANGED <<rlVars, cbVars, llmVars, sigVars>>

\* lines 70-74: await self._select_healing_strategy(...), which gives a
\* strategy or None, and the test of line 74
SelectHealingStrategy ==
    /\ h_pc = "select"
    /\ \E raises \in BOOLEAN, choice \in Strategies \cup {NoStrategy} :
          IF raises
          THEN /\ Raised("select")
               /\ UNCHANGED healing_strategy
          ELSE /\ healing_strategy' = choice
               /\ h_pc' = IF choice # NoStrategy THEN "check" ELSE "learn"
               /\ UNCHANGED <<healing_result, h_raised>>
    /\ UNCHANGED <<circuit_breakers, error_patterns, h_error, h_context,
                   error_signature, h_executed, h_recorded, heal_calls>>
    /\ UNCHANGED <<rlVars, cbVars, llmVars, sigVars>>

\* lines 76-78 and 87-89: await self._check_circuit_breaker(component_id)
CheckBreaker ==
    /\ h_pc = "check"
    /\ LET component_id == ContextGet(h_context, "component", DefaultComponent)
       IN  \E raises \in BOOLEAN, timeoutElapsed \in BOOLEAN :
              LET check == CheckCircuitBreaker(
                               BreakerOf(circuit_breakers, component_id),
                               timeoutElapsed)
              IN  IF raises
                  THEN /\ Raised("check")
                       /\ UNCHANGED circuit_breakers
                  ELSE IF check[1]
                  THEN /\ circuit_breakers' =
                             SetBreaker(circuit_breakers, component_id, check[2])
                       /\ h_pc' = "execute"
                       /\ UNCHANGED <<healing_result, h_raised>>
                  ELSE /\ healing_result' = Blocked(healing_result)
                       /\ h_pc' = "learn"
                       /\ UNCHANGED <<circuit_breakers, h_raised>>
    /\ UNCHANGED <<error_patterns, h_error, h_context, error_signature,
                   healing_strategy, h_executed, h_recorded, heal_calls>>
    /\ UNCHANGED <<rlVars, cbVars, llmVars, sigVars>>

\* lines 79-83: await self._execute_healing_strategy(...), which reports a
\* success or a failure, or raises
ExecuteHealingStrategy ==
    /\ h_pc = "execute"
    /\ \E ending \in {"succeeded", "failed", "raised"} :
          /\ h_executed' = ending
          /\ IF ending = "raised" THEN Raised("execute")
             ELSE /\ healing_result' =
                        UpdateResult(healing_result,
                            [success |-> ending = "succeeded",
                             healing_strategy_used |-> healing_strategy])
                  /\ h_pc' = "update_breaker"
                  /\ UNCHANGED h_raised
    /\ UNCHANGED <<circuit_breakers, error_patterns, h_error, h_context,
                   error_signature, healing_strategy, h_recorded, heal_calls>>
    /\ UNCHANGED <<rlVars, cbVars, llmVars, sigVars>>

\* line 86: await self._update_circuit_breaker(component_id, success)
UpdateBreaker ==
    /\ h_pc = "update_breaker"
    /\ LET component_id == ContextGet(h_context, "component", DefaultComponent)
       IN  \E raises \in BOOLEAN :
              IF raises
              THEN /\ Raised("update_breaker")
                   /\ UNCHANGED circuit_breakers
              ELSE /\ circuit_breakers' =
                         SetBreaker(circuit_breakers, component_id,
                             UpdateCircuitBreaker(
                                 BreakerOf(circuit_breakers, component_id),
                                 healing_result.success))
                   /\ h_pc' = "learn"
                   /\ UNCHANGED <<healing_result, h_raised>>
    /\ UNCHANGED <<error_patterns, h_error, h_context, error_signature,
                   healing_strategy, h_executed, h_recorded, heal_calls>>
    /\ UNCHANGED <<rlVars, cbVars, llmVars, sigVars>>

\* lines 92-101: await self._update_learning_models(...), and the return
UpdateLearning ==
    /\ h_pc = "learn"
    /\ \E raises \in BOOLEAN :
          IF raises
          THEN /\ Raised("learn")
               /\ UNCHANGED <<error_patterns, h_recorded>>
          ELSE /\ error_patterns' =
                     IF healing_strategy = NoStrategy THEN error_patterns
                     ELSE UpdateLearningModels(error_patterns, error_signature,
                              healing_strategy, healing_result.success)
               /\ h_recorded' = [signature |-> error_signature,
                                 strategy |-> healing_strategy,
                                 success |-> healing_result.success]
               /\ healing_result' =
                     [healing_result EXCEPT !.learning_updates = TRUE]
               /\ h_pc' = "returned"
               /\ UNCHANGED h_raised
    /\ UNCHANGED <<circuit_breakers, h_error, h_context, error_signature,
                   healing_strategy, h_executed, heal_calls>>
    /\ UNCHANGED <<rlVars, cbVars, llmVars, sigVars>>

----------------------------------------------------------------------------
(***************************************************************************)
(* Specifications                                                          *)
(***************************************************************************)

NextLLM ==
    \/ \E r \in Requests : Generate(r)
    \/ \E r \in Requests : StartPass(r)
    \/ \E r \in Requests : CallSucceeds(r)
    \/ \E r \in Requests : CallFails(r)
    \/ \E name \in MarkChoices : MarkProviderHealthy(name)

InitLLM ==
    RateLimiterInit /\ DeployerInit /\ ManagerInitUsed /\ HealInit /\ SigInit

SpecLLM == InitLLM /\ [][NextLLM]_vars

Init == RateLimiterInit /\ DeployerInit /\ ManagerInit /\ HealInit /\ SigInit

\* two calls of _generate_error_signature
CallGenerateErrorSignature(i) ==
    /\ sig_value[i] = NoSignature
    /\ sig_value' = [sig_value EXCEPT
                        ![i] = GenerateErrorSignature(sig_error[i], sig_context[i])]
    /\ UNCHANGED <<sig_error, sig_context>>
    /\ UNCHANGED <<rlVars, cbVars, llmVars, healVars>>

InitSig ==
    RateLimiterInit /\ DeployerInit /\ ManagerInit /\ HealInit /\ SigInitAny

NextSig == \E i \in SigCalls : CallGenerateErrorSignature(i)

SpecSig == InitSig /\ [][NextSig]_vars

\* registrations in any order, and one caller of generate
NextReg ==
    \/ \E name \in Backends, priority \in Priorities : AddProvider(name, priority)
    \/ Generate(1)
    \/ StartPass(1)
    \/ CallSucceeds(1)
    \/ CallFails(1)

InitReg ==
    RateLimiterInit /\ DeployerInit /\ ManagerInitEmpty /\ HealInit /\ SigInit

SpecReg == InitReg /\ [][NextReg]_vars

\* the names and the priorities the administrator uses
AdminNames == {"A", "B"}
MaxAdminPriority == 1
AdminPriorities == 0..MaxAdminPriority

\* registrations and removals in any order, and one caller of generate
NextAdmin ==
    \/ \E name \in AdminNames, priority \in AdminPriorities :
          AddProvider(name, priority)
    \/ \E name \in AdminNames : RemoveProvider(name)
    \/ Generate(1)
    \/ StartPass(1)
    \/ CallSucceeds(1)
    \/ CallFails(1)
    \/ RemovedCallEnds(1)
    \/ NextCandidateRemoved(1)

SpecAdmin == InitReg /\ [][NextAdmin]_vars

\* the scenario: requests one after another
NextScenario ==
    \/ Submit
    \/ StartPassUpTo(1, ScenarioCalls)
    \/ FailingCallFails
    \/ ProviderAcquire
    \/ ProviderEnter
    \/ Wake(1)
    \/ Tick
    \/ WorkingCallSucceeds

InitScenario ==
    /\ RateLimiterInitWith(RequestsPerMinute, TokensPerMinute)
    /\ DeployerInit /\ ManagerInit /\ HealInit /\ SigInit

SpecScenario == InitScenario /\ [][NextScenario]_vars

\* the event loop runs every ready task, provider calls end, time passes
FairSpecScenario ==
    /\ SpecScenario
    /\ WF_vars(Submit)
    /\ WF_vars(StartPassUpTo(1, ScenarioCalls))
    /\ WF_vars(FailingCallFails)
    /\ WF_vars(ProviderAcquire)
    /\ WF_vars(ProviderEnter)
    /\ WF_vars(Wake(1))
    /\ WF_vars(Tick)
    /\ WF_vars(WorkingCallSucceeds)

\* one generate call that makes every provider call it wants to
RetryCalls == max_tries * Cardinality(Backends)

NextRetry ==
    \/ Generate(1)
    \/ StartPassUpTo(1, RetryCalls)
    \/ CallSucceeds(1)
    \/ CallFailsUpTo(1, RetryCalls)
    \/ \E name \in MarkChoices : MarkProviderHealthy(name)

SpecRetry == InitLLM /\ [][NextRetry]_vars

\* backoff's sleep ends, and every provider call returns or raises
FairSpecRetry ==
    /\ SpecRetry
    /\ WF_vars(StartPassUpTo(1, RetryCalls))
    /\ WF_vars(CallSucceeds(1) \/ CallFailsUpTo(1, RetryCalls))

\* max_time = 30 (line 47), the only time budget of a generate call, runs out
\* while a provider call is awaited
TimePasses ==
    /\ g_pc[1] = "awaiting"
    /\ ~deadline_passed
    /\ deadline_passed' = TRUE
    /\ UNCHANGED <<submitted, acquired>>
    /\ UNCHANGED <<rlVars, cbVars, regVars, genVars, healVars, sigVars>>

\* a provider call raises; when that ends the pass, backoff retries unless
\* max_time is used up by then
CallFailsInTime ==
    /\ CallFailsUpTo(1, RetryCalls)
    /\ g_pc'[1] = "backoff" => ~deadline_passed
    /\ (g_pc'[1] = "raised" /\ tries[1] < max_tries) => deadline_passed

\* one generate call and the passing of its time budget
NextDeadline ==
    \/ Generate(1)
    \/ StartPassUpTo(1, RetryCalls)
    \/ CallSucceeds(1)
    \/ CallFailsInTime
    \/ TimePasses

SpecDeadline == InitLLM /\ [][NextDeadline]_vars

NextHeal ==
    \/ HealError
    \/ AnalyzeErrorPatterns
    \/ PerformPredictiveMaintenance
    \/ SelectHealingStrategy
    \/ CheckBreaker
    \/ ExecuteHealingStrategy
    \/ UpdateBreaker
    \/ UpdateLearning

SpecHeal == Init /\ [][NextHeal]_vars

NextCB ==
    \/ DeployCall
    \/ LoopHead
    \/ CreateSucceeds
    \/ CreateFails
    \/ BackoffDone
    \/ DeployTick

SpecCB == Init /\ [][NextCB]_vars

----------------------------------------------------------------------------
NextRL ==
    \/ \E t \in Tasks : CallAcquire(t)
    \/ \E t \in Tasks : Enter(t)
    \/ \E t \in Tasks : Wake(t)
    \/ Reset
    \/ Tick

SpecRL == Init /\ [][NextRL]_vars

\* concurrent acquire calls only (nobody calls reset)
NextAcquire ==
    \/ \E t \in Tasks : CallAcquire(t)
    \/ \E t \in Tasks : Enter(t)
    \/ \E t \in Tasks : Wake(t)
    \/ Tick

SpecAcquire == Init /\ [][NextAcquire]_vars

\* the same under the event loop's scheduling, as in FairSpecRL
FairSpecAcquire ==
    /\ SpecAcquire
    /\ \A t \in Tasks : SF_vars(Enter(t)) /\ WF_vars(Wake(t))
    /\ WF_vars(Tick)

\* the event loop runs every ready task, a free lock is handed to its waiters
\* in turn, and time passes
FairSpecRL ==
    /\ SpecRL
    /\ \A t \in Tasks : SF_vars(Enter(t)) /\ WF_vars(Wake(t))
    /\ WF_vars(Tick)

----------------------------------------------------------------------------
(***************************************************************************)
(* Properties of the RateLimiter                                           *)
(***************************************************************************)

\* C1: every acquire(token_count) with token_count <= tpm_limit eventually
\* returns; in particular a call that had to wait still terminates.  (Stated
\* for runs in which no caller asks for more than tpm_limit.)
C1_AcquireTerminates ==
    ([](\A t \in Tasks : token_count[t] <= tpm_limit))
        => (\A t \in Tasks : (pc[t] # "idle") ~> (pc[t] = "idle"))

\* C2: in every reachable state 0 <= request_tokens <= rpm_limit and
\* 0 <= token_tokens <= tpm_limit (token_count >= 0, any passage of time,
\* any resets).
C2_TokensWithinCapacity ==
    /\ 0 <= request_tokens /\ request_tokens <= rpm_limit * SecondsPerMinute
    /\ 0 <= token_tokens /\ token_tokens <= tpm_limit * SecondsPerMinute

\* C2 witness: acquires have drained the request bucket to its lower bound
\* and charged the token bucket, and time has passed since.
C2_Witness ==
    /\ request_tokens = 0
    /\ token_tokens < tpm_limit * SecondsPerMinute
    /\ time_passed > 0

\* C3: acquire is all-or-nothing on both dimensions: a step that admits a
\* call lowers request_tokens by exactly 1 and token_tokens by exactly
\* token_count, relative to the refilled values; a step that makes a call
\* wait leaves both at their refilled values; and no other step lowers
\* either bucket.
C3_AllOrNothing ==
    [][LET rt == Min(rpm_limit * SecondsPerMinute,
                     request_tokens + time_passed * rpm_limit)
           tt == Min(tpm_limit * SecondsPerMinute,
                     token_tokens + time_passed * tpm_limit)
       IN  /\ \A t \in Tasks : Admitted(t) =>
                 /\ request_tokens' = rt - SecondsPerMinute
                 /\ token_tokens' = tt - token_count[t] * SecondsPerMinute
           /\ \A t \in Tasks : MadeToWait(t) =>
                 /\ request_tokens' = rt
                 /\ token_tokens' = tt
           /\ (\A t \in Tasks : ~Admitted(t)) =>
                 /\ request_tokens' >= request_tokens
                 /\ token_tokens' >= token_tokens
      ]_vars

\* C3 witness: a call has been admitted (both buckets are charged: one
\* request, and a positive token_count) and another call has been made to
\* wait, holding the lock.
C3_Witness ==
    /\ request_tokens < rpm_limit * SecondsPerMinute
    /\ token_tokens < tpm_limit * SecondsPerMinute
    /\ \E t \in Tasks : pc[t] = "sleeping" /\ token_count[t] <= tpm_limit

\* C4: acquire(token_count) with token_count > tpm_limit fails at once and
\* does not wait: such a call is never found sleeping or retrying.
C4_OversizeNeverWaits ==
    \A t \in Tasks :
        token_count[t] > tpm_limit => (pc[t] # "sleeping" /\ depth[t] = 0)

----------------------------------------------------------------------------
(***************************************************************************)
(* Properties of the deployment circuit breaker                            *)
(***************************************************************************)

\* C5: after 3 consecutive failed deploy attempts of the service the breaker
\* is OPEN, and an attempt made before recovery_timeout has elapsed since the
\* last failure is rejected without invoking create_service.
C5_CircuitTrip ==
    /\ (consecutive_failures >= failure_threshold /\ cb_pc = "idle")
          => service_result.circuit_breaker_state = "OPEN"
    /\ (service_result.circuit_breaker_state = "OPEN"
          /\ since_failure <= recovery_timeout)
          => cb_pc # "create"

\* C6: once the breaker is OPEN and recovery_timeout has elapsed since the
\* last failure, the next call goes through as the HALF_OPEN probe: when
\* create_service is invoked then, the breaker is HALF_OPEN.
C6_CircuitRecovery ==
    (cb_pc = "create"
        /\ service_result.circuit_breaker_state = "OPEN"
        /\ since_failure > recovery_timeout)
    => circuit_breaker_state = "HALF_OPEN"

----------------------------------------------------------------------------
(***************************************************************************)
(* Properties of LLMManager.generate                                       *)
(***************************************************************************)

Last(seq) == seq[Len(seq)]
Front(seq) == SubSeq(seq, 1, Len(seq) - 1)
IsPrefix(a, b) == Len(a) <= Len(b) /\ \A i \in 1..Len(a) : a[i] = b[i]
FirstIndex(seq, x) == CHOOSE i \in 1..Len(seq) :
                         seq[i] = x /\ \A j \in 1..(i - 1) : seq[j] # x

\* the step in which request r begins a pass, and the one in which it calls
\* a provider
PassStarts(r) == g_pc[r] \in {"start", "backoff"} /\ tries'[r] = tries[r] + 1
CallStarts(r) ==
    /\ g_pc'[r] = "awaiting"
    /\ (tries'[r] # tries[r] \/ position'[r] # position[r])

\* the order the claim describes, for the registry as it is: the preferred
\* provider first if it is registered and healthy, then every other healthy
\* provider in provider_priority order, each once
IsComputedOrder(c, pref) ==
    LET prefOk == pref \in providers /\ HealthGet(pref)
        healthy == {provider_priority[i] : i \in 1..Len(provider_priority)}
                      \cap {b \in Backends : HealthGet(b)}
    IN  /\ \A i, j \in 1..Len(c) : i # j => c[i] # c[j]
        /\ {c[i] : i \in 1..Len(c)} = healthy \cup (IF prefOk THEN {pref} ELSE {})
        /\ prefOk => c[1] = pref
        /\ \A i, j \in 1..Len(c) :
              (i < j /\ ~(prefOk /\ c[i] = pref))
                 => FirstIndex(provider_priority, c[i])
                       < FirstIndex(provider_priority, c[j])

\* C7: generate tries candidates strictly in the computed order: the list a
\* pass starts with is the preferred provider (if registered and healthy)
\* followed by the other healthy providers in provider_priority order, each
\* once; the providers called in a pass are a prefix of it; and a provider is
\* called only when every provider called before it in the pass has failed.
C7_FailoverOrder ==
    /\ [][\A r \in Requests :
             PassStarts(r) => IsComputedOrder(providers_to_try'[r], preferred[r])
         ]_vars
    /\ [](\A r \in Requests :
             /\ IsPrefix(invoked[r], providers_to_try[r])
             /\ IsPrefix(failed[r], invoked[r])
             /\ Len(failed[r]) >= Len(invoked[r]) - 1
             /\ g_pc[r] = "awaiting" => failed[r] = Front(invoked[r]))

\* C7 witness: a request preferring C has called C, then A, and now B, each
\* after the one before it failed.
C7_Witness ==
    \E r \in Requests :
        /\ g_pc[r] = "awaiting"
        /\ preferred[r] = "C"
        /\ invoked[r] = <<"C", "A", "B">>
        /\ failed[r] = <<"C", "A">>

\* C8: generate never calls a backend that is marked unhealthy: in every step
\* that starts a provider call, under any interleaving of generate calls and
\* health changes, the provider's health flag is true at that moment.
C8_NeverCallsUnhealthy ==
    [][\A r \in Requests :
          CallStarts(r) => health_status'[providers_to_try'[r][position'[r]]]
      ]_vars

\* C9: when generate raises, every candidate of the pass was called and
\* failed, the error is the aggregate one, and it carries the error of the
\* last backend called: it always has a real underlying cause.
C9_AggregateCarriesCause ==
    \A r \in Requests :
        g_pc[r] = "raised" =>
            /\ outcome[r].kind = "AllProvidersFailed"
            /\ invoked[r] = providers_to_try[r]
            /\ failed[r] = providers_to_try[r]
            /\ outcome[r].last_error # NoProvider
            /\ outcome[r].last_error = Last(invoked[r])

\* C10: when a backend call succeeds, generate returns with provider_used
\* naming that backend, which is the first candidate in the computed order
\* whose call succeeded (all candidates before it were called and failed);
\* the step that returns has counted the success in that backend's metrics;
\* and no further backend is called for the request.
C10_SuccessReturnsServingBackend ==
    /\ [](\A r \in Requests :
             g_pc[r] = "returned" =>
                /\ outcome[r].kind = "result"
                /\ invoked[r] # <<>>
                /\ outcome[r].provider_used = Last(invoked[r])
                /\ IsPrefix(invoked[r], providers_to_try[r])
                /\ failed[r] = Front(invoked[r]))
    /\ [][\A r \in Requests :
             /\ (g_pc[r] = "awaiting" /\ g_pc'[r] = "returned") =>
                   LET name == outcome'[r].provider_used
                       before == performance_metrics[name]
                       after == performance_metrics'[name]
                   IN  /\ name = invoked[r][Len(invoked[r])]
                       /\ after.total_requests = before.total_requests + 1
                       /\ after.successful_requests
                             = before.successful_requests + 1
                       /\ after.error_rate =
                             <<after.total_requests - after.successful_requests,
                               after.total_requests>>
             /\ g_pc[r] = "returned" =>
                   /\ g_pc'[r] = "returned"
                   /\ invoked'[r] = invoked[r]
                   /\ outcome'[r] = outcome[r]
         ]_vars

\* C10 witness: a request was served by B after A had failed.
C10_Witness ==
    \E r \in Requests :
        /\ g_pc[r] = "returned"
        /\ outcome[r].provider_used = "B"
        /\ failed[r] = <<"A">>
        /\ performance_metrics["B"].successful_requests > 0

----------------------------------------------------------------------------
(***************************************************************************)
(* Properties of the provider registry, of health marking and of the       *)
(* outer retry                                                             *)
(***************************************************************************)

NoDuplicates(seq) == \A i, j \in 1..Len(seq) : i # j => seq[i] # seq[j]

\* C11: providers added with add_provider(name, provider, priority) are tried
\* in ascending order of priority: when a pass starts with no preferred
\* provider, a candidate registered with a smaller priority value comes
\* before every candidate registered with a larger one, whatever the order
\* of the registrations (each name registered once).
C11_AscendingPriority ==
    [][PassStarts(1) /\ preferred[1] = NoProvider
          /\ NoDuplicates(provider_priority) =>
          LET c == providers_to_try'[1]
          IN  \A i, j \in 1..Len(c) :
                 registered_priority[c[i]] < registered_priority[c[j]] => i < j
      ]_vars

\* a call of provider b fails in this step
FailureOf(b) ==
    \E r \in Requests :
        /\ g_pc[r] = "awaiting"
        /\ providers_to_try[r][position[r]] = b
        /\ failed'[r] = Append(failed[r], b)

\* error_rate > 0.5 and total_requests > 10 for these metrics
OverThreshold(m) ==
    /\ 2 * (m.total_requests - m.successful_requests) > m.total_requests
    /\ m.total_requests > 10

\* C12: generate switches a provider from healthy to unhealthy only in a step
\* in which one of its calls failed, and exactly when the metrics as updated
\* for that failure have error_rate > 0.5 and total_requests > 10.
C12_UnhealthyOnlyOverThreshold ==
    [][\A b \in Backends :
          /\ (health_status[b] /\ ~health_status'[b]) =>
                /\ FailureOf(b)
                /\ performance_metrics'[b].total_requests
                      = performance_metrics[b].total_requests + 1
                /\ OverThreshold(performance_metrics'[b])
          /\ (FailureOf(b) /\ OverThreshold(performance_metrics'[b])) =>
                ~health_status'[b]
      ]_vars

\* C12 witness: B, which had 10 failed calls behind it, failed once more in
\* this run and is unhealthy, while A's failure did not make A unhealthy.
C12_Witness ==
    /\ ~health_status["B"]
    /\ performance_metrics["B"].total_requests = 11
    /\ health_status["A"]
    /\ performance_metrics["A"].total_requests = 1
    /\ \E r \in Requests : failed[r] = <<"A", "B">>

\* C13: with A, B and C registered (rpm = 60 each) and A failing every call,
\* each of the 61 requests preferring A, submitted one after another, is
\* served, and by B; after them A is marked unhealthy; and every later
\* dispatch leaves A alone and lands on B.
C13_FailingPreferredScenario ==
    /\ [](g_pc[1] # "raised")
    /\ [](g_pc[1] = "returned" => outcome[1].provider_used = "B")
    /\ []((submitted >= ScenarioRequests /\ g_pc[1] = "returned")
             => ~health_status[FailingProvider])
    /\ [](submitted > ScenarioRequests
             => ~Contains(invoked[1], FailingProvider))
    /\ (submitted <= ScenarioRequests /\ g_pc[1] \in {"start", "awaiting"})
          ~> (g_pc[1] = "returned")

\* C14: for one generate call at most one provider call is in flight at any
\* time: a candidate's generate is started only in the step in which the
\* call before it ended in failure, and a pass (the first, or one started by
\* the outer retry) begins with no call in flight.
C14_OneCallInFlight ==
    /\ [](\A r \in Requests :
             /\ Len(in_flight[r]) <= 1
             /\ g_pc[r] = "awaiting" => in_flight[r] = <<Last(invoked[r])>>)
    /\ [][\A r \in Requests :
             /\ PassStarts(r) => in_flight[r] = <<>>
             /\ (CallStarts(r) /\ g_pc[r] = "awaiting") =>
                   /\ failed'[r] = Append(failed[r], in_flight[r][1])
                   /\ in_flight'[r] = <<providers_to_try[r][position'[r]]>>
         ]_vars

\* C14 witness: in its second pass a request has failed over from B and has
\* its one call, to C, in flight.
C14_Witness ==
    \E r \in Requests :
        /\ tries[r] = 2
        /\ failed[r] = <<"B">>
        /\ in_flight[r] = <<"C">>

\* C15: the outer retry is bounded and wraps the whole dispatch: a generate
\* call makes at most max_tries = 3 passes, a pass calls no provider twice
\* (so no provider is called more than 3 times for it), the retry's delay
\* comes only after a whole pass has failed (a failed candidate is followed
\* by the next one in the same step), and if every provider call terminates
\* the generate call ends with a result or with the exhaustion error.
C15_BoundedOuterRetry ==
    /\ [](\A r \in Requests :
             /\ tries[r] <= max_tries
             /\ NoDuplicates(invoked[r])
             /\ g_pc[r] = "backoff" =>
                   /\ failed[r] = providers_to_try[r]
                   /\ tries[r] < max_tries
             /\ g_pc[r] = "raised" => outcome[r].kind = "AllProvidersFailed"
             /\ g_pc[r] = "returned" => outcome[r].kind = "result")
    /\ [][\A r \in Requests :
             (g_pc[r] = "awaiting" /\ failed'[r] # failed[r]
                 /\ position[r] < Len(providers_to_try[r]))
             => (g_pc'[r] = "awaiting" /\ position'[r] = position[r] + 1)
         ]_vars
    /\ (g_pc[1] = "start") ~> (g_pc[1] \in {"returned", "raised"})

\* C15 witness: a generate call has raised after three passes, each over two
\* candidates.
C15_Witness ==
    /\ g_pc[1] = "raised"
    /\ tries[1] = max_tries
    /\ Len(invoked[1]) = 2
    /\ calls_started = 2 * max_tries

----------------------------------------------------------------------------
(***************************************************************************)
(* Properties of SelfHealingSystem.heal_error                              *)
(***************************************************************************)

\* the component the current heal_error call is about
ComponentId == ContextGet(h_context, "component", DefaultComponent)

\* C16: when _check_circuit_breaker returns false (the breaker of
\* context.component is OPEN), heal_error executes no healing strategy and
\* does not update the breaker, and the outcome it returns has
\* success == false and requires_human_intervention == true.
C16_OpenBreakerBlocksHealing ==
    /\ [](healing_result.blocked =>
             /\ h_executed = "no"
             /\ h_pc \in {"learn", "returned"}
             /\ BreakerOf(circuit_breakers, ComponentId).state = "OPEN"
             /\ h_pc = "returned" =>
                   /\ healing_result.success = FALSE
                   /\ healing_result.requires_human_intervention = TRUE)
    /\ [][(healing_result.blocked \/ healing_result'.blocked)
             => circuit_breakers' = circuit_breakers]_vars
    /\ [][(h_pc = "check" /\ h_pc' = "learn") => healing_result'.blocked]_vars

\* C16 witness: two failed healings opened the breaker of component "b", and
\* the third heal_error call for it has returned, blocked.
C16_Witness ==
    /\ h_pc = "returned"
    /\ healing_result.blocked
    /\ healing_strategy # NoStrategy
    /\ ComponentId = <<"b">>
    /\ BreakerOf(circuit_breakers, <<"b">>).state = "OPEN"

\* C17: when the healing process itself raises (any of the helpers
\* heal_error awaits), the outcome heal_error returns has success == false
\* and requires_human_intervention == true.
C17_RaisedHealingNeedsHuman ==
    (h_pc = "returned" /\ h_raised # "no") =>
        /\ healing_result.success = FALSE
        /\ healing_result.requires_human_intervention = TRUE

\* C18: whenever heal_error has executed a healing strategy, the learning
\* model was given that (signature, strategy, outcome) before heal_error
\* returned, whether the strategy succeeded, failed or raised; and nothing
\* is recorded for a strategy that was not executed.
C18_EveryAttemptRecorded ==
    h_pc = "returned" =>
        /\ h_executed # "no" =>
              h_recorded = [signature |-> error_signature,
                            strategy |-> healing_strategy,
                            success |-> h_executed = "succeeded"]
        /\ h_executed = "no" => h_recorded.strategy = NoStrategy

----------------------------------------------------------------------------
(***************************************************************************)
(* Properties of SelfHealingSystem._generate_error_signature               *)
(***************************************************************************)

BothComputed == \A i \in SigCalls : sig_value[i] # NoSignature
ComponentOf(i) == ContextGet(sig_context[i], "component", DefaultComponent)
First100(i) ==
    SubSeq(sig_error[i].message, 1, Min(Len(sig_error[i].message), 100))

\* C19: two errors of the same type whose messages agree on their first 100
\* characters, raised with contexts naming the same component, get the same
\* signature; and the signatures differ whenever the components differ or
\* the error types differ.
C19_SignatureStability ==
    BothComputed =>
        /\ (/\ sig_error[1].type = sig_error[2].type
            /\ First100(1) = First100(2)
            /\ ComponentOf(1) = ComponentOf(2))
              => sig_value[1] = sig_value[2]
        /\ (ComponentOf(1) # ComponentOf(2)
               \/ sig_error[1].type # sig_error[2].type)
              => sig_value[1] # sig_value[2]

\* the two messages are the same text around another request id
SameButRequestId(m1, m2) ==
    /\ Len(m1) = Len(m2)
    /\ Front(m1) = Front(m2)
    /\ {Last(m1), Last(m2)} \subseteq {"1", "2"}

\* C20: the signature does not depend on request-specific data: two
\* occurrences of the same type of error in the same component that differ
\* only in operation_id, user_id or project_id of the context, or in a
\* literal request id inside the message, get the same signature.
C20_NoRequestSpecificData ==
    (/\ BothComputed
     /\ sig_error[1].type = sig_error[2].type
     /\ ComponentOf(1) = ComponentOf(2)
     /\ SameButRequestId(sig_error[1].message, sig_error[2].message))
        => sig_value[1] = sig_value[2]

----------------------------------------------------------------------------
(***************************************************************************)
(* Properties of the dispatch together with a provider's rate limiter     *)
(***************************************************************************)

\* the provider call of the dispatch runs its limiter's check (lines 20-37
\* of rate_limiter.py) in this step, and the refilled buckets cannot admit it
BudgetCannotAdmit ==
    /\ g_pc[1] = "awaiting"
    /\ pc[1] = "lock"
    /\ pc'[1] # "lock"
    /\ TooFew(Refill(request_tokens, RequestsPerMinute, time_passed),
              Refill(token_tokens, TokensPerMinute, time_passed),
              token_count[1])

\* C21: a candidate whose rate budget cannot admit the request is skipped
\* in favour of the next candidate, and the skip is no failure of that
\* provider: the dispatch does not wait on the provider's limiter, it is on
\* to the next candidate (or the pass has ended), and the provider's
\* total_requests, error_rate and health flag are as before.
C21_RateLimitedCandidateSkipped ==
    [][BudgetCannotAdmit =>
          /\ pc'[1] = "idle"
          /\ \/ position'[1] = position[1] + 1
             \/ g_pc'[1] \in {"backoff", "raised"}
          /\ performance_metrics' = performance_metrics
          /\ health_status' = health_status
      ]_vars

\* C22: a dispatch respects its deadline: once the time budget of the
\* generate call has passed, generate starts no further provider call and
\* no further pass, and what it raises then is a timeout error.
C22_DeadlineRespected ==
    /\ [][deadline_passed => ~CallStarts(1) /\ ~PassStarts(1)]_vars
    /\ []((deadline_passed /\ g_pc[1] = "raised")
             => outcome[1].kind = "Timeout")

----------------------------------------------------------------------------
(***************************************************************************)
(* Properties of RateLimiter.acquire under deadlines and concurrency       *)
(***************************************************************************)

\* the time a caller of acquire is prepared to wait, in seconds
CallerDeadline == 30

\* C23: acquire waits no longer than the caller's deadline allows: when the
\* check of line 37 fails and the wait needed for the tokens exceeds the
\* deadline, the call ends at once, as a failure, with nothing deducted
\* (both buckets at their refilled values), instead of going to sleep.
C23_AcquireBoundedByDeadline ==
    [][\A t \in Tasks :
          LET rt == Refill(request_tokens, rpm_limit, time_passed)
              tt == Refill(token_tokens, tpm_limit, time_passed)
          IN  (/\ pc[t] = "lock"
               /\ pc'[t] # "lock"
               /\ TooFew(rt, tt, token_count[t])
               /\ WaitTime(rt, tt, token_count[t]) > CallerDeadline)
              => /\ pc'[t] = "idle"
                 /\ request_tokens' = rt
                 /\ token_tokens' = tt
      ]_vars

\* C24: refill, check and deduct are one critical section with respect to
\* the other callers of acquire: the buckets never go below zero (what was
\* deducted never exceeds the initial tokens plus the refill), a call is
\* admitted only with the lock free, against the refilled buckets, which
\* cover its cost, and while a task is inside the critical section (it
\* holds the lock) no other task gets past line 20 and the buckets are not
\* touched.
C24_AtomicRefillCheckDeduct ==
    /\ [](request_tokens >= 0 /\ token_tokens >= 0)
    /\ [][\A t \in Tasks :
             LET rt == Refill(request_tokens, rpm_limit, time_passed)
                 tt == Refill(token_tokens, tpm_limit, time_passed)
             IN  /\ Admitted(t) =>
                       /\ lock = NoTask
                       /\ rt >= 1 * SecondsPerMinute
                       /\ tt >= token_count[t] * SecondsPerMinute
                       /\ <<request_tokens', token_tokens'>>
                             = Consume(rt, tt, token_count[t])
                 /\ lock = t =>
                       /\ request_tokens' = request_tokens
                       /\ token_tokens' = token_tokens
                       /\ \A u \in Tasks \ {t} :
                             pc[u] = "lock" => pc'[u] = "lock"
         ]_vars

\* C24 witness: after an admitted call, a task is suspended inside the
\* critical section while another stands at line 20.
C24_Witness ==
    /\ lock = 1
    /\ pc[1] = "sleeping"
    /\ pc[2] = "lock"
    /\ request_tokens < rpm_limit * SecondsPerMinute

\* the buckets as they are now can pay for task u's call
Affordable(u) ==
    ~TooFew(Refill(request_tokens, rpm_limit, time_passed),
            Refill(token_tokens, tpm_limit, time_passed),
            token_count[u])

\* C25: a task suspended inside acquire waiting for tokens does not block
\* the other callers: a call the bucket can pay for, made while another task
\* waits, is admitted; and the lock is never held forever, so that acquire
\* calls can still be admitted after a call has had to wait.  (Stated for
\* runs in which no caller asks for more than tpm_limit.)
C25_WaiterDoesNotBlockOthers ==
    ([](\A t \in Tasks : token_count[t] <= tpm_limit))
       => /\ \A t, u \in Tasks :
                (t # u /\ pc[t] = "sleeping" /\ pc[u] = "lock" /\ Affordable(u))
                   ~> (pc[u] = "idle")
          /\ []<>(lock = NoTask)

----------------------------------------------------------------------------
(***************************************************************************)
(* Further properties of the deployment circuit breaker                    *)
(***************************************************************************)

----------------------------------------------------------------------------
(***************************************************************************)
(* Properties of LLMManager under concurrent dispatches and administration *)
(***************************************************************************)

\* the generate calls whose call of provider b completes in this step
Completing(b) ==
    {r \in Requests :
        /\ g_pc[r] = "awaiting"
        /\ providers_to_try[r][position[r]] = b
        /\ (g_pc'[r] # "awaiting" \/ position'[r] # position[r])}

\* C27: the metrics stay consistent under concurrent generate calls: every
\* completed call of a provider adds exactly one to its total_requests, and
\* one to successful_requests if it succeeded, and nothing else changes
\* them (no update is lost); 0 <= successful_requests <= total_requests;
\* and once updated, error_rate is 1 - successful_requests / total_requests.
C27_MetricsConsistent ==
    /\ [](\A b \in Backends :
             LET m == performance_metrics[b]
             IN  /\ 0 <= m.successful_requests
                 /\ m.successful_requests <= m.total_requests
                 /\ m.total_requests > 0 =>
                       m.error_rate = <<m.total_requests - m.successful_requests,
                                        m.total_requests>>)
    /\ [][\A b \in Backends :
             LET m == performance_metrics[b]
                 done == Completing(b)
                 succeeded == {r \in done : g_pc'[r] = "returned"}
             IN  /\ performance_metrics'[b].total_requests
                       = m.total_requests + Cardinality(done)
                 /\ performance_metrics'[b].successful_requests
                       = m.successful_requests + Cardinality(succeeded)
         ]_vars

\* C27 witness: two generate calls were on A at once; one got its result
\* from A, the other's call of A failed and it is now on B.
C27_Witness ==
    /\ g_pc[2] = "returned"
    /\ outcome[2].provider_used = "A"
    /\ failed[1] = <<"A">>
    /\ in_flight[1] = <<"B">>
    /\ performance_metrics["A"].total_requests = 2
    /\ performance_metrics["A"].successful_requests = 1

AllUnhealthy == \A b \in providers : ~health_status[b]

\* C28: health only degrades by itself: no step of a generate call makes an
\* unhealthy provider healthy (only mark_provider_healthy, or a new
\* add_provider, does); and so, once all providers are unhealthy, every pass
\* of generate raises without calling any provider, and the generate call
\* ends in the exhaustion error.
C28_HealthOnlyDegrades ==
    /\ [][\A b \in Backends :
             (~health_status[b] /\ health_status'[b])
                => (genVars' = genVars
                      /\ performance_metrics' = performance_metrics)
         ]_vars
    /\ [][\A r \in Requests :
             (PassStarts(r) /\ AllUnhealthy)
                => /\ providers_to_try'[r] = <<>>
                   /\ invoked'[r] = <<>>
                   /\ calls_started' = calls_started
                   /\ g_pc'[r] \in {"backoff", "raised"}
         ]_vars

\* C28 witness: with every provider unhealthy and nobody marking one
\* healthy, a generate call has raised after its three passes without a
\* single provider call in the run.
C28_Witness ==
    /\ AllUnhealthy
    /\ g_pc[1] = "raised"
    /\ tries[1] = max_tries
    /\ invoked[1] = <<>>
    /\ calls_started = 0


\* ---------------------------------------------------------------------------
\* Properties of the registry under add_provider and remove_provider
\* ---------------------------------------------------------------------------

\* C29: after any sequence of add_provider and remove_provider calls,
\* registrations of a name already registered included, the dictionaries
\* providers, health_status and performance_metrics have the same keys, and
\* provider_priority holds exactly those names, each once (so a removed name
\* is in none of the four).
C29_RegistryConsistent ==
    /\ DOMAIN health_status = providers
    /\ DOMAIN performance_metrics = providers
    /\ {provider_priority[i] : i \in 1..Len(provider_priority)} = providers
    /\ NoDuplicates(provider_priority)

\* the provider call request r awaits ends in this step
CallEnded(r) ==
    /\ g_pc[r] = "awaiting"
    /\ g_pc'[r] # "awaiting" \/ position'[r] # position[r]

\* C30: a remove_provider or a re-registration while a dispatch awaits a
\* provider does not corrupt the dispatch.  When the awaited call returns,
\* generate returns that result; when it raises, the dispatch fails over to
\* the next candidate or, the candidates exhausted, ends the pass with
\* AllProvidersFailed: no other error leaves the failover loop, and the
\* request is not sent again after a provider has answered it.
C30_DispatchSurvivesAdministration ==
    [][\A r \in Requests :
          CallEnded(r) =>
              IF failed'[r] = failed[r]
              THEN /\ g_pc'[r] = "returned"
                   /\ outcome'[r].kind = "result"
                   /\ outcome'[r].provider_used = providers_to_try[r][position[r]]
              ELSE /\ last_exception'[r] # "KeyError"
                   /\ \/ /\ g_pc'[r] = "awaiting"
                         /\ position'[r] = position[r] + 1
                      \/ /\ position[r] = Len(providers_to_try[r])
                         /\ g_pc'[r] \in {"backoff", "raised"}
                         /\ g_pc'[r] = "raised"
                               => outcome'[r].kind = "AllProvidersFailed"]_vars

=============================================================================
